---- MODULE Spec2Model ----
(***************************************************************************)
(* Model of spade_artifact.artifact.Artifact: the connection lifecycle     *)
(* (start / _async_start / stop / _async_stop), the inbound callback       *)
(* _message_received with the asyncio queue behind receive(), and send().  *)
(*                                                                         *)
(* One Artifact instance, one caller.  Every action is the code between    *)
(* two suspension points (awaits) of the coroutine that is running, or a   *)
(* whole synchronous call.  The asyncio event loop owned by the instance   *)
(* is part of the state: loop.run_until_complete refuses a closed loop and *)
(* a running loop.  Two runtimes are covered (variable build): on          *)
(* "strict" runtimes (3.8, 3.9) run_until_complete checks that the loop is *)
(* not running before it wraps the coroutine; on "deferred" runtimes (3.7) *)
(* it wraps and schedules the coroutine as a task first and then fails in  *)
(* run_forever, so the task still runs at the next loop iteration.  The    *)
(* finally block of start() is the asyncio.all_tasks branch of its         *)
(* sys.version_info test: the tasks it finds are the unfinished ones.  The *)
(* 3.6 branch (Task.all_tasks, which also returns finished tasks) is not   *)
(* covered.                                                                *)
(*                                                                         *)
(* The user's run() is a sequence of awaits of send, receive and           *)
(* _async_stop, of calls of mailbox_size, and may spawn one task on the    *)
(* loop, which runs until it is cancelled; run() does not call the         *)
(* blocking start()/stop() on its own running loop.  The owner of the      *)
(* instance calls start, stop, send, receive and mailbox_size one after    *)
(* the other.                                                              *)
(*                                                                         *)
(* External collaborators (aioxmpp client, registration stream, presence)  *)
(* are inputs: each call into them succeeds or fails nondeterministically. *)
(* The graceful disconnect (__aexit__ of client.connected()) is taken to   *)
(* complete; client.send can only accept a stanza while the session is     *)
(* open on the running loop.                                               *)
(***************************************************************************)
EXTENDS Integers, Sequences, FiniteSets, TLC

\* ---- bounds ------------------------------------------------------------
\* public or in-run operations invoked in one behaviour
MaxOps == 4
\* inbound stanzas handed to the callback in one behaviour
MaxArrivals == 2
\* Message objects the user logic holds for send()
NumMsgs == 1
\* distinct values the owner stores in the knowledge base
NumValues == 2

\* ---- values ------------------------------------------------------------
OwnJid == "artifact@server"
PeerJid == "peer@server"
NoSender == "unset"
MsgIds == 1..NumMsgs
\* None, as receive() and get() return it
Absent == 0
\* the names and the values used with set() and get()
Names == {"x", "y"}
Values == 1..NumValues

VARIABLES
  values,       \* self._values: a function from the names that were set
  build,        \* "strict" | "deferred": the runtime's run_until_complete
  overridden,   \* whether the subclass overrides run()
  loop,         \* self.loop: "idle" | "running" | "closed"
  pc,           \* where the caller / the running coroutine is
  autoReg,      \* auto_register of the start() in progress
  client,       \* self.client is not None
  presence,     \* self.presence is not None
  conn_coro,    \* self.conn_coro is not None
  stream,       \* self.stream is not None
  cbRegistered, \* _message_received registered with the dispatcher
  session,      \* the conn_coro context: "none" | "open" | "closing" | "closed"
  alive,        \* self._alive.is_set()
  queue,        \* self.queue
  getters,      \* queue.get() calls suspended on the empty queue
  ready,        \* queue.put tasks scheduled on the loop, not yet run
  lead,         \* one coroutine step may still precede the tasks in ready
  tasks,        \* the other tasks on the loop: "none" | "pending" | "done" | "cancelled"
  msgs,         \* the user's Message objects: [given, sender, sent]
  cur,          \* the Message of the send() in progress
  ext,          \* what the directory service / the transport last answered
  exc,          \* exception travelling up through start()
  last,         \* the last finished call: [op, arg, out]
  nops,         \* operations invoked so far
  arrived,      \* stanzas handed to the callback so far
  cbOutcome,    \* how the last callback invocation ended
  trace,        \* steps executed by the start() that got onto the loop
  stopEntry,    \* presence/alive as _async_stop found them
  stopTrace,    \* steps executed by the current/last _async_stop
  enqueued,     \* history: items put on the queue
  received,     \* history: Messages returned by receive()
  expired,      \* history: receive(timeout) calls ended by their timeout
  accepted      \* history: Messages the session accepted for transmission

vars == <<values, build, overridden, loop, pc, autoReg, client, presence, conn_coro,
          stream, cbRegistered, session, alive, queue, getters, ready, lead,
          tasks, msgs, cur,
          ext, exc, last, nops, arrived, cbOutcome, trace, stopEntry, stopTrace,
          enqueued, received, expired, accepted>>

\* groups used in UNCHANGED
conn == <<client, presence, conn_coro, stream, cbRegistered, session>>
mbox == <<queue, getters, ready, enqueued, received, expired, arrived,
          cbOutcome>>
stopv == <<stopEntry, stopTrace>>
sendv == <<msgs, cur, accepted>>
fixed == <<build, overridden>>

Senders == {NoSender, OwnJid, PeerJid}

\* the tasks on the loop besides the coroutine of start() and the puts:
\* the task that runs the client's session, from client.connected() entered
\* to its exit, and a task the user's run() spawned
TaskIds == {"client", "worker"}

\* __init__
Init ==
  /\ values = [n \in {} |-> Absent]
  /\ build \in {"strict", "deferred"}
  /\ overridden \in BOOLEAN
  /\ loop = "idle"
  /\ pc = "idle"
  /\ autoReg = TRUE
  /\ client = FALSE
  /\ presence = FALSE
  /\ conn_coro = FALSE
  /\ stream = FALSE
  /\ cbRegistered = FALSE
  /\ session = "none"
  /\ alive = FALSE
  /\ queue = <<>>
  /\ getters = 0
  /\ ready = <<>>
  /\ lead = FALSE
  /\ tasks = [t \in TaskIds |-> "none"]
  /\ msgs \in {m \in [MsgIds -> [given : Senders, sender : Senders, sent : {FALSE}]] :
                 \A i \in MsgIds : m[i].sender = m[i].given}
  /\ cur = 1
  /\ ext = "none"
  /\ exc = "none"
  /\ last = [op |-> "init", arg |-> "none", out |-> "ok", msg |-> Absent]
  /\ nops = 0
  /\ arrived = 0
  /\ cbOutcome = "none"
  /\ trace = <<>>
  /\ stopEntry = [presence |-> FALSE, alive |-> FALSE]
  /\ stopTrace = <<>>
  /\ enqueued = <<>>
  /\ received = <<>>
  /\ expired = 0
  /\ accepted = {}

\* is_alive()
is_alive == alive

\* mailbox_size counting the puts that are scheduled but have not run
mailbox_size_with_scheduled == Len(queue) + Len(ready)

\* mailbox_size(): self.queue.qsize()
mailbox_size == Len(queue)

\* The coroutine run by start() may take a step: the loop is running, and a
\* task scheduled before this step was scheduled has not been overtaken twice.
Go == loop = "running" /\ (ready # <<>> => lead)

Invoke == nops < MaxOps /\ nops' = nops + 1

\* the record of a finished call: out is "ok", "absent", "message" or the name
\* of the exception raised to the caller; msg is the Message, size or value
\* returned, if any
Done(op, arg, out) == last' = [op |-> op, arg |-> arg, out |-> out, msg |-> Absent]

ArgOf(auto) == IF auto THEN "auto_register" ELSE "no_register"

\* CreateClient with the callback registered as soon as the dispatcher exists
CreateClientAndRegister == client' = TRUE /\ presence' = TRUE /\ cbRegistered' = TRUE

\* CreateClient with the client kept in a local variable
CreatePresenceOnly == presence' = TRUE /\ UNCHANGED <<client, cbRegistered>>

\* Lines 87-100 of _async_start: the client, its dispatcher and the presence
\* manager are created, without suspending, just before _async_connect.
CreateClient == client' = TRUE /\ presence' = TRUE /\ UNCHANGED cbRegistered

\* The steps of _async_start and of start(), in the order of the source text.
StartOrder(auto) ==
  <<"hook_before">> \o (IF auto THEN <<"register">> ELSE <<>>)
    \o <<"connect", "register_callback", "hook_after", "setup", "alive", "run">>

\* ---- start() -----------------------------------------------------------
\* start(auto_register): run_until_complete refuses a loop that is closed (a
\* start() already ran on this instance); the finally block then finds no
\* task, closes the closed loop again, and the RuntimeError reaches the caller.
Start(auto) ==
  /\ pc = "idle"
  /\ Invoke
  /\ IF loop = "idle"
       THEN /\ loop' = "running"
            /\ pc' = "hook_before"
            /\ autoReg' = auto
            /\ trace' = <<>>
            /\ exc' = "none"
            /\ UNCHANGED last
       ELSE /\ Done("start", ArgOf(auto), "RuntimeError")
            /\ UNCHANGED <<loop, pc, autoReg, trace, exc>>
  /\ UNCHANGED <<fixed, values, tasks, conn, mbox, stopv, sendv, alive, lead, ext>>

\* await self._hook_plugin_before_connection(); then, with auto_register
\* false, straight on to the creation of the client.
HookBefore ==
  /\ pc = "hook_before"
  /\ Go
  /\ lead' = FALSE
  /\ \E ok \in BOOLEAN :
       IF ok
         THEN /\ trace' = Append(trace, "hook_before")
              /\ IF autoReg
                   THEN pc' = "register" /\ UNCHANGED <<client, presence, cbRegistered>>
                   ELSE pc' = "connect" /\ CreateClient
              /\ UNCHANGED exc
         ELSE /\ trace' = trace \o <<"hook_before", "error">>
              /\ exc' = "HookError"
              /\ pc' = "finally"
              /\ UNCHANGED <<client, presence, cbRegistered>>
  /\ UNCHANGED <<fixed, values, tasks, conn_coro, stream, session, mbox, stopv,
                 sendv, loop, autoReg, alive, last, nops, ext>>

\* await self._async_register(): the directory service accepts or refuses.
Register ==
  /\ pc = "register"
  /\ Go
  /\ lead' = FALSE
  /\ \E ok \in BOOLEAN :
       IF ok
         THEN /\ trace' = Append(trace, "register")
              /\ ext' = "ok"
              /\ pc' = "connect"
              /\ CreateClient
              /\ UNCHANGED exc
         ELSE /\ trace' = trace \o <<"register", "error">>
              /\ ext' = "refused"
              /\ exc' = "RegistrationFailure"
              /\ pc' = "finally"
              /\ UNCHANGED <<client, presence, cbRegistered>>
  /\ UNCHANGED <<fixed, values, tasks, conn_coro, stream, session, mbox, stopv,
                 sendv, loop, autoReg, alive, last, nops>>

\* ConnectError without the except clause of _async_connect
ConnectErrorUnmapped(outcome) == "ConnectionFailure"

\* What _async_connect raises for each outcome of entering client.connected():
\* aiosasl.AuthenticationFailure is caught and raised again as
\* AuthenticationFailure with the auto_register hint; anything else passes.
ConnectError(outcome) ==
  IF outcome = "auth" THEN "AuthenticationFailure" ELSE "ConnectionFailure"

\* await self._async_connect() and, with no suspension in between, the
\* registration of _message_received with the dispatcher.
Connect ==
  /\ pc = "connect"
  /\ Go
  /\ lead' = FALSE
  /\ conn_coro' = TRUE
  /\ \E outcome \in {"ok", "auth", "conn"} :
       /\ ext' = outcome
       /\ IF outcome = "ok"
            THEN /\ stream' = TRUE
                 /\ session' = "open"
                 /\ tasks' = [tasks EXCEPT !["client"] = "pending"]
                 /\ cbRegistered' = TRUE
                 /\ trace' = trace \o <<"connect", "register_callback">>
                 /\ pc' = "hook_after"
                 /\ UNCHANGED exc
            ELSE /\ trace' = trace \o <<"connect", "error">>
                 /\ exc' = ConnectError(outcome)
                 /\ pc' = "finally"
                 /\ UNCHANGED <<stream, session, cbRegistered, tasks>>
  /\ UNCHANGED <<fixed, values, client, presence, mbox, stopv, sendv, loop, autoReg,
                 alive, last, nops>>

\* await self._hook_plugin_after_connection()
HookAfter ==
  /\ pc = "hook_after"
  /\ Go
  /\ lead' = FALSE
  /\ \E ok \in BOOLEAN :
       IF ok
         THEN /\ trace' = Append(trace, "hook_after")
              /\ pc' = "setup"
              /\ UNCHANGED exc
         ELSE /\ trace' = trace \o <<"hook_after", "error">>
              /\ exc' = "HookError"
              /\ pc' = "finally"
  /\ UNCHANGED <<fixed, values, tasks, ext, conn, mbox, stopv, sendv, loop, autoReg, alive, last,
                 nops>>

\* Setup with self._alive.set() moved in front of the await of setup()
SetupAliveFirst ==
  /\ pc = "setup"
  /\ Go
  /\ lead' = FALSE
  /\ alive' = TRUE
  /\ \E ok \in BOOLEAN :
       IF ok
         THEN /\ trace' = trace \o <<"alive", "setup">>
              /\ pc' = "run_begin"
              /\ UNCHANGED exc
         ELSE /\ trace' = trace \o <<"alive", "setup", "error">>
              /\ exc' = "SetupError"
              /\ pc' = "finally"
  /\ UNCHANGED <<fixed, values, tasks, ext, conn, mbox, stopv, sendv, loop, autoReg, last, nops>>

\* Setup with self._alive.set() in a finally clause around the await
SetupAlwaysSetsFlag ==
  /\ pc = "setup"
  /\ Go
  /\ lead' = FALSE
  /\ alive' = TRUE
  /\ \E ok \in BOOLEAN :
       IF ok
         THEN /\ trace' = trace \o <<"setup", "alive">>
              /\ pc' = "run_begin"
              /\ UNCHANGED exc
         ELSE /\ trace' = trace \o <<"setup", "error">>
              /\ exc' = "SetupError"
              /\ pc' = "finally"
  /\ UNCHANGED <<fixed, values, tasks, ext, conn, mbox, stopv, sendv, loop, autoReg,
                 last, nops>>

\* await self.setup(); self._alive.set(); _async_start returns.
Setup ==
  /\ pc = "setup"
  /\ Go
  /\ lead' = FALSE
  /\ \E ok \in BOOLEAN :
       IF ok
         THEN /\ trace' = trace \o <<"setup", "alive">>
              /\ alive' = TRUE
              /\ pc' = "run_begin"
              /\ UNCHANGED exc
         ELSE /\ trace' = trace \o <<"setup", "error">>
              /\ exc' = "SetupError"
              /\ pc' = "finally"
              /\ UNCHANGED alive
  /\ UNCHANGED <<fixed, values, tasks, ext, conn, mbox, stopv, sendv, loop, autoReg, last, nops>>

\* RunBegin with a base run() that returns instead of raising
RunBeginBaseReturns ==
  /\ pc = "run_begin"
  /\ Go
  /\ lead' = FALSE
  /\ trace' = Append(trace, "run")
  /\ pc' = IF overridden THEN "run" ELSE "finally"
  /\ UNCHANGED <<fixed, values, tasks, ext, conn, mbox, stopv, sendv, loop, autoReg, alive,
                 exc, last, nops>>

\* self.loop.run_until_complete(self.run()): the base run() raises
\* NotImplementedError at once; an overriding run() is the user's logic.
RunBegin ==
  /\ pc = "run_begin"
  /\ Go
  /\ lead' = FALSE
  /\ IF overridden
       THEN /\ trace' = Append(trace, "run")
            /\ pc' = "run"
            /\ UNCHANGED exc
       ELSE /\ trace' = trace \o <<"run", "error">>
            /\ exc' = "NotImplementedError"
            /\ pc' = "finally"
  /\ UNCHANGED <<fixed, values, tasks, ext, conn, mbox, stopv, sendv, loop, autoReg, alive, last,
                 nops>>

\* the user's run() spawns a task on self.loop
RunSpawn ==
  /\ pc = "run"
  /\ Invoke
  /\ Go
  /\ tasks["worker"] # "pending"
  /\ tasks' = [tasks EXCEPT !["worker"] = "pending"]
  /\ Done("spawn", "none", "ok")
  /\ UNCHANGED <<fixed, values, ext, conn, mbox, stopv, sendv, loop, pc, autoReg, alive,
                 lead, exc, trace>>

\* the user's run() returns
RunReturn ==
  /\ pc = "run"
  /\ Go
  /\ lead' = FALSE
  /\ pc' = "finally"
  /\ UNCHANGED <<fixed, values, tasks, ext, conn, mbox, stopv, sendv, loop, autoReg, alive, exc,
                 last, nops, trace>>

\* the user's run() raises
RunRaise ==
  /\ pc = "run"
  /\ Go
  /\ lead' = FALSE
  /\ exc' = "RunError"
  /\ trace' = Append(trace, "error")
  /\ pc' = "finally"
  /\ UNCHANGED <<fixed, values, tasks, ext, conn, mbox, stopv, sendv, loop, autoReg, alive, last,
                 nops>>

\* The finally block of start(): the tasks still on the loop are cancelled and
\* run to their end, the loop is closed, and the exception of the try block,
\* if any, continues to the caller.  A put task scheduled earlier has run by
\* then (it runs in the loop iteration after the one that scheduled it).
StartOutcome == IF exc = "none" THEN "ok" ELSE exc

\* asyncio.all_tasks(loop=self.loop): the unfinished tasks of the loop
Outstanding == {t \in TaskIds : tasks[t] = "pending"}

\* CancelTasks with the tasks left as they are
CancelNoTask == UNCHANGED tasks

\* for task in tasks: task.cancel(), then run_until_complete(task) with
\* CancelledError suppressed
CancelTasks ==
  tasks' = [t \in TaskIds |-> IF t \in Outstanding THEN "cancelled" ELSE tasks[t]]

\* CloseLoop with the loop left open for another run_until_complete
LeaveLoopOpen == loop' = "idle"

\* self.loop.close(), the last statement of the finally block
CloseLoop == loop' = "closed"

\* Finally with a stop of the Artifact added to the finally block
FinallyWithStop ==
  /\ pc = "finally"
  /\ ready = <<>>
  /\ CancelTasks
  /\ CloseLoop
  /\ session' = IF session = "open" THEN "closed" ELSE session
  /\ alive' = FALSE
  /\ pc' = "idle"
  /\ lead' = FALSE
  /\ Done("start", ArgOf(autoReg), StartOutcome)
  /\ UNCHANGED <<fixed, values, ext, client, presence, conn_coro, stream, cbRegistered,
                 mbox, stopv, sendv, autoReg, exc, nops, trace>>

Finally ==
  /\ pc = "finally"
  /\ ready = <<>>
  /\ CancelTasks
  /\ CloseLoop
  /\ pc' = "idle"
  /\ lead' = FALSE
  /\ Done("start", ArgOf(autoReg), StartOutcome)
  /\ UNCHANGED <<fixed, values, ext, conn, mbox, stopv, sendv, autoReg, alive, exc, nops,
                 trace>>

\* ---- stop() ------------------------------------------------------------
\* The steps of one _async_stop that found presence p and is_alive() a.
StopOrder(p, a) ==
  (IF p THEN <<"unavailable">> ELSE <<>>)
    \o (IF a THEN <<"disconnect", "disconnected">> ELSE <<>>)
    \o <<"clear">>

\* AsyncStopBegin with self._alive.clear() moved in front of the disconnect
AsyncStopBeginClearsFirst(ret) ==
  /\ stopEntry' = [presence |-> presence, alive |-> alive]
  /\ alive' = FALSE
  /\ IF is_alive
       THEN /\ stopTrace' = (IF presence THEN <<"unavailable">> ELSE <<>>)
                               \o <<"clear", "disconnect">>
            /\ session' = "closing"
            /\ pc' = "stop_wait"
            /\ UNCHANGED last
       ELSE /\ stopTrace' = (IF presence THEN <<"unavailable">> ELSE <<>>)
                               \o <<"clear">>
            /\ pc' = ret
            /\ Done("stop", "none", "ok")
            /\ UNCHANGED session

\* _async_stop up to its only suspension point: presence.set_unavailable()
\* when a presence manager exists; then, when is_alive(), client.stop() and
\* the await of conn_coro.__aexit__; otherwise straight to _alive.clear().
AsyncStopBegin(ret) ==
  /\ stopEntry' = [presence |-> presence, alive |-> alive]
  /\ IF is_alive
       THEN /\ stopTrace' = (IF presence THEN <<"unavailable">> ELSE <<>>)
                               \o <<"disconnect">>
            /\ session' = "closing"
            /\ pc' = "stop_wait"
            /\ UNCHANGED <<alive, last>>
       ELSE /\ stopTrace' = (IF presence THEN <<"unavailable">> ELSE <<>>)
                               \o <<"clear">>
            /\ alive' = FALSE
            /\ pc' = ret
            /\ Done("stop", "none", "ok")
            /\ UNCHANGED session

\* AsyncStopEnd without the final self._alive.clear()
AsyncStopEndKeepsFlag(ret) ==
  /\ stopTrace' = stopTrace \o <<"disconnected">>
  /\ session' = "closed"
  /\ UNCHANGED alive
  /\ pc' = ret
  /\ Done("stop", "none", "ok")

\* _async_stop after the awaited __aexit__ has returned: _alive.clear().
AsyncStopEnd(ret) ==
  /\ stopTrace' = stopTrace \o <<"disconnected", "clear">>
  /\ session' = "closed"
  /\ alive' = FALSE
  /\ pc' = ret
  /\ Done("stop", "none", "ok")

\* await self._async_stop() from the user's run()
RunStop ==
  /\ pc = "run"
  /\ Invoke
  /\ Go
  /\ lead' = FALSE
  /\ AsyncStopBegin("run")
  /\ UNCHANGED <<fixed, values, tasks, ext, client, presence, conn_coro, stream, cbRegistered,
                 mbox, sendv, loop, autoReg, exc, trace>>

\* the disconnect awaited by _async_stop completes
StopDone ==
  /\ pc = "stop_wait"
  /\ Go
  /\ lead' = FALSE
  /\ AsyncStopEnd("run")
  /\ tasks' = [tasks EXCEPT !["client"] = "done"]
  /\ UNCHANGED <<fixed, values, ext, client, presence, conn_coro, stream, cbRegistered,
                 mbox, sendv, stopEntry, loop, autoReg, exc, nops, trace>>

\* stop() called by the owner of the instance, outside start():
\* run_until_complete raises RuntimeError on a closed loop before a step of
\* _async_stop runs; on an idle loop it runs _async_stop to its end.
TopStop ==
  /\ pc = "idle"
  /\ Invoke
  /\ IF loop = "idle"
       THEN IF is_alive
              THEN /\ stopEntry' = [presence |-> presence, alive |-> alive]
                   /\ stopTrace' = StopOrder(presence, TRUE)
                   /\ session' = "closed"
                   /\ tasks' = [tasks EXCEPT !["client"] = "done"]
                   /\ alive' = FALSE
                   /\ pc' = "idle"
                   /\ Done("stop", "none", "ok")
              ELSE AsyncStopBegin("idle") /\ UNCHANGED tasks
       ELSE /\ Done("stop", "none", "RuntimeError")
            /\ UNCHANGED <<stopv, session, alive, pc, tasks>>
  /\ UNCHANGED <<fixed, values, ext, client, presence, conn_coro, stream, cbRegistered,
                 mbox, sendv, loop, autoReg, lead, exc, trace>>

\* ---- the Dispatch Bridge and the Mailbox -------------------------------
\* _message_received(msg): Message.from_node, then
\* self.loop.run_until_complete(self.queue.put(msg)).  On an idle loop the
\* put runs to its end.  On a closed loop run_until_complete raises.  On a
\* running loop it raises as well: before anything is scheduled on a strict
\* runtime, after the put has been scheduled as a task on a deferred one.
MessageReceived(m) ==
  CASE loop = "idle" ->
         /\ queue' = Append(queue, m)
         /\ enqueued' = Append(enqueued, m)
         /\ cbOutcome' = "ok"
         /\ UNCHANGED <<ready, lead>>
    [] loop = "running" /\ build = "deferred" ->
         /\ ready' = Append(ready, m)
         /\ lead' = IF ready = <<>> THEN TRUE ELSE lead
         /\ cbOutcome' = "RuntimeError"
         /\ UNCHANGED <<queue, enqueued>>
    [] OTHER ->
         /\ cbOutcome' = "RuntimeError"
         /\ UNCHANGED <<queue, enqueued, ready, lead>>

\* The dispatcher hands an inbound chat stanza to the registered callback.
\* Stanzas come in over the open session, processed by the running loop while
\* the coroutine of start() is suspended.
Deliver ==
  /\ cbRegistered
  /\ session = "open"
  /\ loop = "running"
  /\ pc \notin {"idle", "run_begin", "finally"}
  /\ arrived < MaxArrivals
  /\ arrived' = arrived + 1
  /\ MessageReceived(arrived + 1)
  /\ UNCHANGED <<fixed, values, tasks, ext, conn, stopv, sendv, received, expired, getters, loop, pc,
                 autoReg, alive, exc, last, nops, trace>>

\* The loop runs a scheduled queue.put(msg) task: put on an unbounded queue
\* appends without suspending and wakes the first suspended get().  The
\* get() of a receive() still waiting takes the item at its next step
\* (RecvWake); a get() whose receive() has returned would take the item with
\* nobody to return it to.
PutTask ==
  /\ loop = "running"
  /\ ready # <<>>
  /\ enqueued' = Append(enqueued, Head(ready))
  /\ ready' = Tail(ready)
  /\ IF getters > 0 /\ pc # "recv_wait"
       THEN getters' = getters - 1 /\ UNCHANGED queue
       ELSE queue' = Append(queue, Head(ready)) /\ UNCHANGED getters
  /\ UNCHANGED <<fixed, values, tasks, ext, conn, stopv, sendv, received, expired, arrived,
                 cbOutcome, loop, pc, autoReg, alive, lead, exc, last, nops, trace>>

TimeoutArg(timeout) == IF timeout THEN "timeout" ELSE "none"

\* TakeHead on a queue that hands out its newest item
TakeNewest(timeout) ==
  /\ queue' = SubSeq(queue, 1, Len(queue) - 1)
  /\ received' = Append(received, queue[Len(queue)])
  /\ last' = [op |-> "receive", arg |-> TimeoutArg(timeout), out |-> "message",
              msg |-> queue[Len(queue)]]

\* queue.get_nowait() / a completed queue.get(): the head leaves the queue
\* and is the result of receive().
TakeHead(timeout) ==
  /\ queue' = Tail(queue)
  /\ received' = Append(received, Head(queue))
  /\ last' = [op |-> "receive", arg |-> TimeoutArg(timeout), out |-> "message",
              msg |-> Head(queue)]

\* ReturnAbsent without the except clauses of receive()
ReturnAbsentRaises(timeout) ==
  /\ Done("receive", TimeoutArg(timeout), IF timeout THEN "TimeoutError" ELSE "QueueEmpty")
  /\ UNCHANGED <<queue, received>>

\* receive() returns None: QueueEmpty or TimeoutError caught.
ReturnAbsent(timeout) ==
  /\ Done("receive", TimeoutArg(timeout), "absent")
  /\ UNCHANGED <<queue, received>>

\* await self.receive(timeout) from run(), up to the point where it returns
\* or suspends: with a timeout, wait_for(queue.get()) suspends while the
\* queue is empty; without one, get_nowait() returns or raises QueueEmpty.
RunReceive(timeout) ==
  /\ pc = "run"
  /\ Invoke
  /\ Go
  /\ lead' = FALSE
  /\ IF queue # <<>>
       THEN TakeHead(timeout) /\ UNCHANGED <<pc, getters>>
       ELSE IF timeout
              THEN /\ pc' = "recv_wait"
                   /\ getters' = getters + 1
                   /\ UNCHANGED <<queue, received, last>>
              ELSE ReturnAbsent(timeout) /\ UNCHANGED <<pc, getters>>
  /\ UNCHANGED <<fixed, values, tasks, ext, conn, stopv, sendv, ready, enqueued, expired,
                 arrived, cbOutcome, loop, autoReg, alive, exc, trace>>

\* the suspended queue.get() is woken by a put and takes the head
RecvWake ==
  /\ pc = "recv_wait"
  /\ Go
  /\ lead' = FALSE
  /\ queue # <<>>
  /\ TakeHead(TRUE)
  /\ getters' = getters - 1
  /\ pc' = "run"
  /\ UNCHANGED <<fixed, values, tasks, ext, conn, stopv, sendv, ready, enqueued, expired,
                 arrived, cbOutcome, loop, autoReg, alive, exc, nops, trace>>

\* RecvTimeout with the suspended get() left behind on the queue
RecvTimeoutLeavesGetter ==
  /\ pc = "recv_wait"
  /\ Go
  /\ lead' = FALSE
  /\ ReturnAbsent(TRUE)
  /\ UNCHANGED getters
  /\ expired' = expired + 1
  /\ pc' = "run"
  /\ UNCHANGED <<fixed, values, tasks, ext, conn, stopv, sendv, ready, enqueued, arrived,
                 cbOutcome, loop, autoReg, alive, exc, nops, trace>>

\* the timeout of wait_for expires: wait_for cancels the suspended get(),
\* which leaves the queue's getters; TimeoutError is caught, msg = None
RecvTimeout ==
  /\ pc = "recv_wait"
  /\ Go
  /\ lead' = FALSE
  /\ ReturnAbsent(TRUE)
  /\ getters' = getters - 1
  /\ expired' = expired + 1
  /\ pc' = "run"
  /\ UNCHANGED <<fixed, values, tasks, ext, conn, stopv, sendv, ready, enqueued, arrived,
                 cbOutcome, loop, autoReg, alive, exc, nops, trace>>

\* receive() driven by the owner of the instance outside start(): without a
\* timeout the coroutine never suspends; with one it is run on the idle loop
\* of the instance, where nothing can put while it waits.
TopReceive(timeout) ==
  /\ pc = "idle"
  /\ timeout => loop = "idle"
  /\ Invoke
  /\ IF queue # <<>> THEN TakeHead(timeout) ELSE ReturnAbsent(timeout)
  /\ UNCHANGED <<fixed, values, tasks, ext, conn, stopv, sendv, getters, ready, enqueued,
                 arrived, cbOutcome, loop, pc, autoReg, alive, lead, exc, trace>>
  /\ expired' = IF timeout /\ queue = <<>> THEN expired + 1 ELSE expired

\* mailbox_size() called by the owner of the instance or, without
\* suspending, by the user's run()
MailboxSize ==
  /\ pc \in {"idle", "run"}
  /\ pc = "run" => Go
  /\ Invoke
  /\ last' = [op |-> "mailbox_size", arg |-> "none", out |-> "ok",
              msg |-> mailbox_size]
  /\ UNCHANGED <<fixed, values, tasks, ext, conn, mbox, stopv, sendv, loop, pc, autoReg, alive,
                 lead, exc, trace>>

\* ---- the knowledge base ------------------------------------------------
\* set that keeps the value a name already has
set_if_absent(name, value) ==
  values' = [n \in DOMAIN values \cup {name} |->
               IF n \in DOMAIN values THEN values[n] ELSE value]

\* self._values[name] = value
set(name, value) ==
  values' = [n \in DOMAIN values \cup {name} |->
               IF n = name THEN value ELSE values[n]]

\* what get(name) returns on a knowledge base d
lookup(d, name) == IF name \in DOMAIN d THEN d[name] ELSE Absent

\* get(name)
get(name) == lookup(values, name)

\* set(name, value) called by the owner of the instance or, without
\* suspending, by the user's run()
SetCall(name, value) ==
  /\ pc \in {"idle", "run"}
  /\ pc = "run" => Go
  /\ Invoke
  /\ set(name, value)
  /\ last' = [op |-> "set", arg |-> name, out |-> "ok", msg |-> value]
  /\ UNCHANGED <<fixed, tasks, ext, conn, mbox, stopv, sendv, loop, pc, autoReg,
                 alive, lead, exc, trace>>

\* get(name), called likewise
GetCall(name) ==
  /\ pc \in {"idle", "run"}
  /\ pc = "run" => Go
  /\ Invoke
  /\ last' = [op |-> "get", arg |-> name, out |-> "ok", msg |-> get(name)]
  /\ UNCHANGED <<fixed, values, tasks, ext, conn, mbox, stopv, sendv, loop, pc,
                 autoReg, alive, lead, exc, trace>>

\* ---- send() ------------------------------------------------------------
\* DefaultSender without the defaulting of lines 250-251
DefaultSenderSkipped(i) == UNCHANGED msgs

\* lines 250-253: default the sender, msg.prepare()
DefaultSender(i) ==
  msgs' = [msgs EXCEPT ![i].sender = IF @ = NoSender THEN OwnJid ELSE @]

\* line 255, after the awaited client.send has returned
MarkSent ==
  msgs' = [msgs EXCEPT ![cur].sent = TRUE]

\* await self.send(msg) from run(), up to the await of client.send
RunSend(i) ==
  /\ pc = "run"
  /\ Invoke
  /\ Go
  /\ lead' = FALSE
  /\ DefaultSender(i)
  /\ cur' = i
  /\ IF client
       THEN pc' = "send_wait" /\ UNCHANGED last
       ELSE Done("send", "none", "AttributeError") /\ UNCHANGED pc
  /\ UNCHANGED <<fixed, values, tasks, ext, conn, mbox, stopv, accepted, loop, autoReg, alive,
                 exc, trace>>

\* the session takes the stanza: client.send returns, msg.sent = True
SendAccept ==
  /\ pc = "send_wait"
  /\ Go
  /\ lead' = FALSE
  /\ session = "open"
  /\ accepted' = accepted \cup {cur}
  /\ MarkSent
  /\ pc' = "run"
  /\ Done("send", "none", "ok")
  /\ UNCHANGED <<fixed, values, tasks, ext, conn, mbox, stopv, cur, loop, autoReg, alive, exc,
                 nops, trace>>

\* SendReject with the exception of client.send swallowed
SendRejectSwallowed ==
  /\ pc = "send_wait"
  /\ Go
  /\ lead' = FALSE
  /\ pc' = "run"
  /\ MarkSent
  /\ Done("send", "none", "ok")
  /\ UNCHANGED <<fixed, values, tasks, ext, conn, mbox, stopv, cur, accepted, loop, autoReg,
                 alive, exc, nops, trace>>

\* client.send raises: the exception leaves send() at the await
SendReject ==
  /\ pc = "send_wait"
  /\ Go
  /\ lead' = FALSE
  /\ pc' = "run"
  /\ Done("send", "none", "SendFailure")
  /\ UNCHANGED <<fixed, values, tasks, ext, conn, mbox, stopv, sendv, loop, autoReg, alive, exc,
                 nops, trace>>

\* send() driven by the owner of the instance outside start(): self.client
\* is None before a start() got as far as creating it (AttributeError);
\* afterwards the loop of the client is closed and client.send raises.
TopSend(i) ==
  /\ pc = "idle"
  /\ Invoke
  /\ DefaultSender(i)
  /\ cur' = i
  /\ Done("send", "none", IF client THEN "SendFailure" ELSE "AttributeError")
  /\ UNCHANGED <<fixed, values, tasks, ext, conn, mbox, stopv, accepted, loop, pc, autoReg, alive,
                 lead, exc, trace>>

\* ---- the specification -------------------------------------------------
Next ==
  \/ \E auto \in BOOLEAN : Start(auto)
  \/ HookBefore
  \/ Register
  \/ Connect
  \/ HookAfter
  \/ Setup
  \/ RunBegin
  \/ RunSpawn
  \/ RunReturn
  \/ RunRaise
  \/ Finally
  \/ RunStop
  \/ StopDone
  \/ TopStop
  \/ Deliver
  \/ PutTask
  \/ \E timeout \in BOOLEAN : RunReceive(timeout)
  \/ RecvWake
  \/ RecvTimeout
  \/ \E timeout \in BOOLEAN : TopReceive(timeout)
  \/ MailboxSize
  \/ \E i \in MsgIds : RunSend(i)
  \/ SendAccept
  \/ SendReject
  \/ \E i \in MsgIds : TopSend(i)

Spec == Init /\ [][Next]_vars

\* The same with the knowledge base in use: set() and get() touch nothing
\* but self._values, which no other operation reads or writes.
StoreNext ==
  \/ Next
  \/ \E name \in Names, value \in Values : SetCall(name, value)
  \/ \E name \in Names : GetCall(name)

StoreSpec == Init /\ [][StoreNext]_vars

\* The running loop runs every callback that stays ready: a scheduled put
\* task, and the timer wait_for sets with loop.call_later.
LiveSpec == Spec /\ WF_vars(PutTask) /\ WF_vars(RecvTimeout)

\* ---- helpers of the properties -----------------------------------------
Range(q) == {q[k] : k \in 1..Len(q)}

IsPrefix(p, q) == Len(p) <= Len(q) /\ SubSeq(q, 1, Len(p)) = p

\* a run of steps in the given order, cut short at most by one error
InOrder(t, order) ==
  \/ IsPrefix(t, order)
  \/ /\ t # <<>>
     /\ t[Len(t)] = "error"
     /\ IsPrefix(SubSeq(t, 1, Len(t) - 1), order)

SessionUp == session \in {"open", "closing"}

\* ---- C1 ----------------------------------------------------------------
\* C1: the steps of start() occur in the order before-connection hook,
\* registration (only with auto_register), session establishment, callback
\* registration, after-connection hook, setup(), LivenessFlag set, run();
\* nothing follows a step that raised; the flag goes up only at the end of
\* that sequence and run() begins only with the flag up.
C1_StartOrder ==
  /\ [](InOrder(trace, StartOrder(autoReg)))
  /\ [][/\ (alive' /\ ~alive) =>
             /\ trace' = SubSeq(StartOrder(autoReg), 1, Len(trace'))
             /\ trace'[Len(trace')] = "alive"
        /\ ("run" \in Range(trace') /\ "run" \notin Range(trace)) => alive]_vars

C1_Witness ==
  /\ pc = "run"
  /\ alive
  /\ trace = StartOrder(TRUE)
  /\ "register" \in Range(trace)

\* ---- C2 ----------------------------------------------------------------
\* C2 as stated: in every reachable state is_alive() holds exactly when a
\* session has been established and not yet torn down.
C2_AliveIffSession == is_alive <=> SessionUp

\* C2 amended: is_alive() implies an established session that has not been
\* torn down; an established session without is_alive() occurs exactly
\* between session establishment and the end of setup(), and after the
\* after-connection hook or setup() raised.
C2_AliveOnlyWithSession ==
  /\ is_alive => SessionUp
  /\ (SessionUp /\ ~is_alive) =>
        \/ pc \in {"hook_after", "setup"}
        \/ exc \in {"HookError", "SetupError"}

C2_Witness == pc = "stop_wait" /\ is_alive /\ session = "closing"

\* ---- C3 ----------------------------------------------------------------
\* C3: when registration, connection or authentication fails, start() raises
\* that failure (AuthenticationFailure for a failed authentication), no later
\* step of start() has run, is_alive() is false and no session is open.
StartFailures == {"RegistrationFailure", "AuthenticationFailure", "ConnectionFailure"}

C3_FailedStartIsClean ==
  /\ [](/\ ext = "refused" => exc = "RegistrationFailure"
        /\ ext = "auth" => exc = "AuthenticationFailure"
        /\ ext = "conn" => exc = "ConnectionFailure"
        /\ exc \in StartFailures =>
             /\ ~is_alive
             /\ ~SessionUp
             /\ ~cbRegistered
             /\ pc \in {"finally", "idle"}
             /\ trace[Len(trace)] = "error"
             /\ Range(trace) \cap {"register_callback", "hook_after", "setup",
                                   "alive", "run"} = {})
  /\ [][(pc = "finally" /\ pc' = "idle" /\ exc \in StartFailures) =>
          (last'.op = "start" /\ last'.out = exc)]_vars

C3_Witness ==
  /\ pc = "idle"
  /\ ext = "auth"
  /\ last.op = "start"
  /\ last.out = "AuthenticationFailure"
  /\ ~is_alive

\* ---- C4 ----------------------------------------------------------------
\* C4: in every execution of _async_stop (the body of stop()), unavailability
\* is announced first when a presence manager is attached; with the
\* LivenessFlag up the disconnect is started and awaited; the flag is cleared
\* only once the disconnect has completed, never while it is in progress.
C4_StopOrder ==
  /\ [](/\ IsPrefix(stopTrace, StopOrder(stopEntry.presence, stopEntry.alive))
        /\ pc = "stop_wait" =>
             /\ is_alive
             /\ session = "closing"
             /\ stopEntry.alive
             /\ stopTrace \o <<"disconnected", "clear">>
                  = StopOrder(stopEntry.presence, TRUE)
        /\ (pc # "stop_wait" /\ stopTrace # <<>>) =>
             stopTrace = StopOrder(stopEntry.presence, stopEntry.alive))
  /\ [][(alive /\ ~alive') =>
          /\ session' = "closed"
          /\ stopTrace' = StopOrder(stopEntry'.presence, TRUE)]_vars

C4_Witness ==
  /\ pc = "run"
  /\ last.op = "stop"
  /\ stopTrace = <<"unavailable", "disconnect", "disconnected", "clear">>
  /\ ~is_alive
  /\ session = "closed"

\* ---- C5 ----------------------------------------------------------------
\* C5: whatever the interleaving of enqueues and receive() calls, the
\* Messages receive() has returned, followed by those still in the Mailbox,
\* are the Messages enqueued, in the order enqueued.
C5_Fifo == enqueued = received \o queue

C5_Witness == received = <<1, 2>> /\ queue = <<>>

\* ---- C6 ----------------------------------------------------------------
\* C6: every stanza handed to _message_received while the loop is running
\* ends the callback without error and puts exactly one Message in the
\* Mailbox.
C6_EveryDeliveryEnqueues ==
  /\ cbOutcome # "RuntimeError"
  /\ Len(enqueued) = arrived

\* ---- C7 ----------------------------------------------------------------
\* C7: the callback is registered only once the session is established, and
\* a Message is put in the Mailbox only while that session exists: not before
\* it is established, not after stop has completed.
C7_BridgeWithinSession ==
  /\ [](cbRegistered => session # "none")
  /\ [][Len(enqueued') > Len(enqueued) => SessionUp]_vars

C7_Witness == enqueued # <<>> /\ session = "open" /\ cbRegistered

\* ---- C8 ----------------------------------------------------------------
\* C8: a send that succeeds leaves msg.sent true and, for a Message given
\* without sender, msg.sender the Artifact's own identity; msg.sent is true
\* only for a Message the session has accepted.
C8_SentAfterAccepted ==
  /\ [](\A i \in MsgIds :
          msgs[i].sent =>
            /\ i \in accepted
            /\ msgs[i].given = NoSender => msgs[i].sender = OwnJid)
  /\ [][(pc = "send_wait" /\ pc' = "run" /\ last'.out = "ok") =>
          /\ msgs'[cur].sent
          /\ msgs[cur].given = NoSender => msgs'[cur].sender = OwnJid]_vars

C8_Witness ==
  /\ last.op = "send"
  /\ last.out = "ok"
  /\ msgs[cur].given = NoSender
  /\ msgs[cur].sender = OwnJid
  /\ msgs[cur].sent

\* ---- C9 ----------------------------------------------------------------
\* C9: a send() that finishes while no session is open, or that the
\* transport rejects, raises to its caller and leaves msg.sent as it was;
\* a send() returns normally only for a Message the session accepted.
SendFinishes ==
  /\ last'.op = "send"
  /\ pc' # "send_wait"
  /\ pc = "send_wait" \/ nops' # nops

C9_SendFailsWithoutSession ==
  [][SendFinishes =>
       /\ session # "open" => last'.out \in {"AttributeError", "SendFailure"}
       /\ last'.out # "ok" =>
            /\ last'.out \in {"AttributeError", "SendFailure"}
            /\ msgs'[cur'].sent = msgs[cur'].sent
            /\ accepted' = accepted
       /\ last'.out = "ok" => cur' \in accepted']_vars

C9_Witness ==
  /\ last.op = "send"
  /\ last.out = "SendFailure"
  /\ session = "closed"
  /\ ~msgs[cur].sent

\* ---- C10 ---------------------------------------------------------------
\* C10: receive() without timeout on an empty Mailbox returns absent in the
\* same step, without suspending or raising, whatever the lifecycle state
\* and the LivenessFlag, and leaves the Mailbox empty.
ReceiveNoWait ==
  /\ nops' # nops
  /\ \/ pc = "run" /\ RunReceive(FALSE)
     \/ pc = "idle" /\ TopReceive(FALSE)

C10_EmptyReceiveIsAbsent ==
  [][(ReceiveNoWait /\ queue = <<>>) =>
       /\ last' = [op |-> "receive", arg |-> "none", out |-> "absent",
                   msg |-> Absent]
       /\ pc' = pc
       /\ queue' = <<>>
       /\ UNCHANGED <<alive, session, loop, received>>]_vars

C10_Witness ==
  /\ last.op = "receive"
  /\ last.arg = "none"
  /\ last.out = "absent"
  /\ pc = "run"
  /\ session = "closed"
  /\ ~is_alive

\* ---- C11 ---------------------------------------------------------------
\* C11: a receive(timeout) suspended on the empty Mailbox returns: as long
\* as the Mailbox is empty when the wait ends, it returns absent and raises
\* nothing.  Once it has returned no get() is left waiting on the queue, so
\* a Message enqueued afterwards goes into the Mailbox and is what the next
\* receive() returns.
C11_TimeoutLeavesNoWaiter ==
  /\ [](pc # "recv_wait" => getters = 0)
  /\ [][/\ (pc = "recv_wait" /\ pc' # "recv_wait" /\ queue = <<>>) =>
             /\ last' = [op |-> "receive", arg |-> "timeout", out |-> "absent",
                         msg |-> Absent]
             /\ pc' = "run"
             /\ getters' = 0
             /\ UNCHANGED <<exc, queue, received>>
        /\ (Len(enqueued') > Len(enqueued) /\ pc # "recv_wait") =>
             queue' = Append(queue, enqueued'[Len(enqueued')])
        /\ (last.arg = "timeout" /\ last.out = "absent" /\ queue # <<>>
              /\ received' # received) =>
             /\ last'.out = "message"
             /\ last'.msg = Head(queue)]_vars
  /\ (pc = "recv_wait") ~> (pc = "run" /\ last.op = "receive")

C11_Witness ==
  /\ expired = 1
  /\ enqueued = <<1>>
  /\ received = <<1>>
  /\ last = [op |-> "receive", arg |-> "none", out |-> "message", msg |-> 1]
  /\ getters = 0
  /\ nops = 3

\* ---- C12 ---------------------------------------------------------------
\* C12: in every state mailbox_size() is the number of Messages put in the
\* Mailbox minus the number receive() has returned, and that is what a call
\* returns; the call changes nothing of the instance.
MailboxSizeReturns ==
  /\ nops' # nops
  /\ pc' = pc
  /\ last'.op = "mailbox_size"

C12_SizeIsEnqueuedMinusReceived ==
  /\ [](mailbox_size = Len(enqueued) - Len(received))
  /\ [][MailboxSizeReturns =>
          /\ last'.msg = Len(enqueued) - Len(received)
          /\ last'.out = "ok"
          /\ UNCHANGED <<conn, mbox, stopv, sendv, loop, autoReg, alive, lead,
                         exc, trace>>]_vars

C12_Witness ==
  /\ last.op = "mailbox_size"
  /\ last.msg = 1
  /\ enqueued = <<1, 2>>
  /\ received = <<1>>

\* ---- C13 ---------------------------------------------------------------
\* a step that calls stop() or awaits _async_stop
StopCalled ==
  /\ nops' # nops
  /\ \/ pc' = "stop_wait"
     \/ pc' = pc /\ last'.op = "stop"

\* C13: a stop() on an Artifact that was never started, or that follows
\* directly on another stop() of an Artifact whose start() brought it up and
\* has returned, returns without raising, performs no disconnect and leaves
\* is_alive() false.
C13_StopIsIdempotent ==
  [][(/\ StopCalled
      /\ \/ loop = "idle" /\ trace = <<>>
         \/ last.op = "stop" /\ loop = "closed" /\ "alive" \in Range(trace)) =>
       /\ pc' = pc
       /\ last'.out = "ok"
       /\ ~is_alive'
       /\ session' = session
       /\ "disconnect" \notin Range(stopTrace')]_vars

\* ---- C14 ---------------------------------------------------------------
\* the last stop()/_async_stop of the instance has run to its end
StopCompleted == stopTrace # <<>> /\ pc # "stop_wait"

StartCalled ==
  /\ nops' # nops
  /\ pc = "idle"
  /\ pc' = "hook_before" \/ last'.op = "start"

C15_RunReturnKeepsSession ==
  /\ [][(pc = "finally" /\ pc' = "idle" /\ exc = "none") =>
          /\ last'.op = "start"
          /\ last'.out = "ok"
          /\ is_alive' = is_alive
          /\ session' = session
          /\ stopTrace' = stopTrace]_vars
  /\ []((pc = "idle" /\ last.op = "start" /\ last.out = "ok"
          /\ session # "closed") =>
          /\ is_alive
          /\ session = "open")

C15_Witness ==
  /\ pc = "idle"
  /\ loop = "closed"
  /\ last.op = "start"
  /\ last.out = "ok"
  /\ is_alive
  /\ session = "open"
  /\ stopTrace = <<>>

\* ---- C16 ---------------------------------------------------------------
\* C16: with run() not overridden, a start() whose _async_start succeeded
\* raises NotImplementedError to its caller as soon as run() is entered; no
\* start() of such an Artifact returns normally.
C16_BaseRunRaises ==
  /\ []((~overridden /\ "run" \in Range(trace)) =>
          /\ exc = "NotImplementedError"
          /\ trace = StartOrder(autoReg) \o <<"error">>
          /\ pc \in {"finally", "idle"})
  /\ []((~overridden /\ last.op = "start") => last.out # "ok")
  /\ [][(pc = "finally" /\ pc' = "idle" /\ exc = "NotImplementedError") =>
          (last'.op = "start" /\ last'.out = "NotImplementedError")]_vars

C16_Witness ==
  /\ ~overridden
  /\ pc = "idle"
  /\ last.op = "start"
  /\ last.out = "NotImplementedError"
  /\ "run" \in Range(trace)

\* ---- C17 ---------------------------------------------------------------
\* a step in which a stop()/_async_stop returns normally
StopReturns ==
  /\ last'.op = "stop"
  /\ last'.out = "ok"
  /\ pc = "stop_wait" \/ (nops' # nops /\ pc' = pc)

SetReturns == nops' # nops /\ pc' = pc /\ last'.op = "set"

GetReturns == nops' # nops /\ pc' = pc /\ last'.op = "get"

\* C18: get(name) returns the value of the most recent set(name, value) and
\* absent for a name never set: every name is absent at first, a set makes
\* its value the one get returns for that name and changes no other name, a
\* get returns that value and changes nothing, and no other operation
\* changes the knowledge base.
C18_GetReturnsLastSet ==
  /\ [](nops = 0 => \A n \in Names : get(n) = Absent)
  /\ [][/\ SetReturns =>
             /\ lookup(values', last'.arg) = last'.msg
             /\ \A n \in Names \ {last'.arg} : lookup(values', n) = get(n)
        /\ GetReturns =>
             /\ last'.msg = get(last'.arg)
             /\ values' = values
        /\ ~SetReturns => values' = values]_vars

C18_Witness ==
  /\ last = [op |-> "get", arg |-> "x", out |-> "ok", msg |-> 2]
  /\ nops = 4
  /\ loop = "closed"
  /\ get("y") = Absent

\* ---- C19 ---------------------------------------------------------------
\* the after-connection hook or setup() raised, the session being established
FailedAfterConnect ==
  /\ exc \in {"HookError", "SetupError"}
  /\ "register_callback" \in Range(trace)

\* C19: when the after-connection hook or setup() raises, start() raises
\* that error, run() is never executed and the LivenessFlag stays false; the
\* session that was opened is never disconnected, not by start() and not by
\* a stop() called afterwards.
C19_FailureAfterConnectLeavesSession ==
  /\ [](FailedAfterConnect =>
          /\ ~is_alive
          /\ session = "open"
          /\ pc \in {"finally", "idle"}
          /\ Range(trace) \cap {"alive", "run"} = {})
  /\ [][FailedAfterConnect =>
          /\ (pc = "finally" /\ pc' = "idle") =>
               (last'.op = "start" /\ last'.out = exc)
          /\ StopCalled =>
               /\ pc' = pc
               /\ last'.op = "stop"
               /\ session' = "open"
               /\ ~is_alive'
               /\ "disconnect" \notin Range(stopTrace')]_vars

C19_Witness ==
  /\ FailedAfterConnect
  /\ exc = "SetupError"
  /\ pc = "idle"
  /\ loop = "closed"
  /\ last.op = "stop"
  /\ session = "open"
  /\ ~is_alive

\* ---- C20 ---------------------------------------------------------------
\* C20: in every state with the LivenessFlag set, self.client and
\* self.conn_coro are not None, so the disconnect of _async_stop never meets
\* a null reference.
C20_AliveHasClient ==
  /\ [](is_alive => (client /\ conn_coro))
  /\ [][(stopTrace' # stopTrace /\ "disconnect" \in Range(stopTrace')) =>
          (client /\ conn_coro)]_vars

C20_Witness ==
  /\ pc = "stop_wait"
  /\ stopEntry.alive
  /\ client
  /\ conn_coro
  /\ stopTrace[Len(stopTrace)] = "disconnect"

====
